---------------------------- MODULE Spec2Model ----------------------------
(***************************************************************************)
(* A model of the narrated-video generation services:                      *)
(*   src/video.py                     the online job route                 *)
(*   src/offline_video.py,                                                 *)
(*   src/offline_ai_service.py        the offline job route and service    *)
(*   src/advanced_video_generation.py the advanced orchestrator            *)
(*   src/voice_cloning.py, src/image_generation.py  capability providers   *)
(*   src/dzongkha_service.py          language detection and speech        *)
(*                                                                         *)
(* Strings are sequences of symbols.  A symbol stands for one character,   *)
(* except "W", which stands for a run of WordLen letters, so that the      *)
(* length test of split_script_into_segments can be reached with short     *)
(* sequences.  External calls (remote providers, ffmpeg, espeak, festival, *)
(* cp) succeed or fail nondeterministically; writes the process does       *)
(* itself (open/write, PIL save, wave) succeed.                             *)
(***************************************************************************)
EXTENDS Integers, Sequences, FiniteSets, TLC

\* ------------------------------------------------------------------ bounds
MaxScriptLen == 4
MaxTextLen == 3
MaxJobScriptLen == 3
MaxJobs == 2
MaxSeeds == 2
MaxVoices == 2

\* ----------------------------------------------------------------- strings
\* The letters a run "W" stands for.
WordLen == 150

Letters == {"a", "W"}
Spaces == {" "}
Terminators == {".", "?"}
Alphabet == Letters \cup Spaces \cup Terminators

RECURSIVE SeqsUpTo(_, _)
SeqsUpTo(S, n) ==
    IF n = 0 THEN {<<>>}
    ELSE LET shorter == SeqsUpTo(S, n - 1)
         IN  shorter \cup {Append(s, c) : s \in {t \in shorter : Len(t) = n - 1}, c \in S}

\* The script "Hello there. How are you?", character by character.
HelloScript ==
    <<"H", "e", "l", "l", "o", " ", "t", "h", "e", "r", "e", ".", " ">> \o
    <<"H", "o", "w", " ", "a", "r", "e", " ", "y", "o", "u", "?">>

Scripts == SeqsUpTo(Alphabet, MaxScriptLen) \cup {HelloScript}

\* len(s)
RECURSIVE StrLen(_)
StrLen(s) ==
    IF s = <<>> THEN 0
    ELSE (IF Head(s) = "W" THEN WordLen ELSE 1) + StrLen(Tail(s))

\* s.lstrip()
RECURSIVE LStrip(_)
LStrip(s) ==
    IF s # <<>> /\ Head(s) \in Spaces THEN LStrip(Tail(s)) ELSE s

\* s.rstrip()
RECURSIVE RStrip(_)
RStrip(s) ==
    IF s # <<>> /\ s[Len(s)] \in Spaces THEN RStrip(SubSeq(s, 1, Len(s) - 1)) ELSE s

\* s.strip()
Strip(s) == RStrip(LStrip(s))

\* re.split(r'[.!?]+', s): the pieces between maximal runs of terminators,
\* the empty pieces at both ends included.
RECURSIVE ReSplitFrom(_, _, _, _)
ReSplitFrom(s, i, cur, acc) ==
    IF i > Len(s) THEN Append(acc, cur)
    ELSE IF s[i] \in Terminators
         THEN IF i > 1 /\ s[i - 1] \in Terminators
              THEN ReSplitFrom(s, i + 1, cur, acc)
              ELSE ReSplitFrom(s, i + 1, <<>>, Append(acc, cur))
         ELSE ReSplitFrom(s, i + 1, Append(cur, s[i]), acc)

ReSplit(s) == ReSplitFrom(s, 1, <<>>, <<>>)

\* s.split('. '): the pieces between non-overlapping occurrences of ". ",
\* scanned left to right.
RECURSIVE DotSpaceSplitFrom(_, _, _, _)
DotSpaceSplitFrom(s, i, cur, acc) ==
    IF i > Len(s) THEN Append(acc, cur)
    ELSE IF s[i] = "." /\ i < Len(s) /\ s[i + 1] = " "
         THEN DotSpaceSplitFrom(s, i + 2, <<>>, Append(acc, cur))
         ELSE DotSpaceSplitFrom(s, i + 1, Append(cur, s[i]), acc)

DotSpaceSplit(s) == DotSpaceSplitFrom(s, 1, <<>>, <<>>)

\* [f(x) for x in xs if p(x)] with p(x) == Strip(x) # <<>> and f == Strip
RECURSIVE StrippedNonEmpty(_)
StrippedNonEmpty(xs) ==
    IF xs = <<>> THEN <<>>
    ELSE IF Strip(Head(xs)) # <<>>
         THEN <<Strip(Head(xs))>> \o StrippedNonEmpty(Tail(xs))
         ELSE StrippedNonEmpty(Tail(xs))

\* -------------------------------------------------------------- segmenters
\* The length above which split_script_into_segments starts a new segment.
MaxSegmentLen == 200

\* The loop of split_script_into_segments over the sentences.
RECURSIVE SegmentLoop(_, _, _)
SegmentLoop(sentences, current_segment, segments) ==
    IF sentences = <<>>
    THEN IF Strip(current_segment) # <<>>
         THEN Append(segments, Strip(current_segment))
         ELSE segments
    ELSE LET sentence == Strip(Head(sentences))
             rest == Tail(sentences)
         IN  IF sentence = <<>>
             THEN SegmentLoop(rest, current_segment, segments)
             ELSE IF StrLen(current_segment) + StrLen(sentence) > MaxSegmentLen
                     /\ current_segment # <<>>
                  THEN SegmentLoop(rest, sentence,
                                   Append(segments, Strip(current_segment)))
                  ELSE IF current_segment # <<>>
                       THEN SegmentLoop(rest,
                                        current_segment \o <<".", " ">> \o sentence,
                                        segments)
                       ELSE SegmentLoop(rest, sentence, segments)

\* video.py split_script_into_segments
split_script_into_segments(script) ==
    LET segments == SegmentLoop(ReSplit(script), <<>>, <<>>)
    IN  IF segments = <<>> THEN <<script>> ELSE segments

\* OfflineAIService.split_script
split_script(script) == StrippedNonEmpty(ReSplit(script))

\* A scene of the advanced orchestrator: a dict with the keys an entry has.
Scene(text, visual_description) ==
    [text |-> text, visual_description |-> visual_description]

RECURSIVE FallbackScenes(_)
FallbackScenes(stripped) ==
    IF stripped = <<>> THEN <<>>
    ELSE <<Scene(Append(Head(stripped), "."), Head(stripped))>>
         \o FallbackScenes(Tail(stripped))

\* The except branch of _parse_script_into_scenes.
parse_fallback(script) == FallbackScenes(StrippedNonEmpty(DotSpaceSplit(script)))

\* What the chat-completion call of _parse_script_into_scenes can do: raise,
\* answer with JSON that is no object, answer with an object without the
\* key 'scenes', or answer with an object whose 'scenes' is a list.
AiSceneLists ==
    { <<>>,
      <<Scene(<<"a">>, <<"a">>)>>,
      <<Scene(<<"a", ".">>, <<"a">>), Scene(<<"W">>, <<"W">>)>>,
      <<[text |-> <<"a">>]>> }

AiResponses ==
    {[kind |-> "error"], [kind |-> "not_object"], [kind |-> "no_scenes_key"]}
    \cup {[kind |-> "scenes", scenes |-> l] : l \in AiSceneLists}

\* AdvancedVideoGenerationService._parse_script_into_scenes, given what the
\* chat-completion call did.
_parse_script_into_scenes(script, response) ==
    CASE response.kind = "scenes" -> response.scenes
      [] response.kind = "no_scenes_key" -> <<Scene(script, script)>>
      [] OTHER -> parse_fallback(script)


\* --------------------------------------------------------------- variables
VARIABLES
    seg_script,   \* the script handed to a segmenter
    seg_fn,       \* the segmenter called last ("none" before the first call)
    seg_out,      \* what it returned
    seg_raised,   \* whether it raised
    \* the services' configuration, fixed at construction
    client,       \* VoiceCloningService.client is set (ELEVENLABS_API_KEY)
    tts_engine,   \* OfflineAIService.tts_engine
    \* the files on disk: path -> content
    fs,
    \* the job being served
    job,          \* its number (0: none yet); stands for its job id
    svc,          \* the service observed, and so the entry point serving it
    pc,           \* its position
    script, voice_id, include_subtitles, background_music,
    scenes,       \* the segmenter's result
    loop,         \* the loop of the handler that is running
    i,            \* that loop's next index (1-based)
    audio_files, image_files,   \* video.py: the lists handed to the assembler
    video_segments,             \* the segment paths collected for the assembler
    remote_ok,    \* some remote provider call of the job succeeded
    usable,       \* the scenes whose segment this job built
    concat_list,  \* the segments written to the concat list, if one was written
    concat,       \* the concatenation call of the assembler: none, ok, failed
    calls,        \* the kinds of outside work done for the job
    exc,          \* the function an exception escaped from ("none": none did)
    result,       \* what the caller got
    \* the Dzongkha service
    dz_service,   \* the attributes of the DzongkhaService object
    dz_text,      \* the text its operations are called with
    dz_detected,  \* the last call of detect_language: made or not, its result
    dz_call,      \* the last call of another operation, and its result
    \* the voice cloning service
    hash_seed,    \* the key of this process's str hash (PYTHONHASHSEED)
    voice_known,  \* the voice ids handed out so far, with where they came from
    voice_call,   \* the last call of the service, and its result
    \* the other entry points of AdvancedVideoGenerationService
    entry_call    \* the last call of one of them, and how it ended

segVars == <<seg_script, seg_fn, seg_out, seg_raised>>
cfgVars == <<client, tts_engine>>
reqVars == <<job, script, voice_id, include_subtitles, background_music>>
runVars == <<pc, scenes, loop, i, audio_files, image_files, video_segments,
             remote_ok, usable, concat_list, concat, calls, exc, result>>
jobVars == <<svc, cfgVars, fs, reqVars, runVars>>

dzVars == <<dz_service, dz_text, dz_detected, dz_call>>

voiceVars == <<hash_seed, voice_known, voice_call>>

entryVars == <<entry_call>>

vars == <<segVars, jobVars, dzVars, voiceVars, entryVars>>

\* ------------------------------------------------------------------- files
\* A path: the directory, the job id in the name (0: the name holds none),
\* the kind of file, the index in the name (0: none) and the text whose hash
\* is in the name (<<>>: none).
Path(dir, j, kind, idx, key) ==
    [dir |-> dir, job |-> j, kind |-> kind, idx |-> idx, key |-> key]

\* A file's content: the (job, scene) pairs whose material it holds, in order.
Material(j, k) == <<[job |-> j, scene |-> k]>>

Exists(files, p) == p \in DOMAIN files
Write(files, p, content) == (p :> content) @@ files
Remove(files, p) == [q \in (DOMAIN files) \ {p} |-> files[q]]

NoPath == Path("", 0, "none", 0, <<>>)
NoResult == [status |-> "none", code |-> 0, path |-> NoPath, degraded |-> {}]

\* A voice id: the prefix 'fallback_' or none, the text after it, and the
\* number at the end of a fallback id (0: the id holds none).
VoiceId(prefix, name, h) == [prefix |-> prefix, name |-> name, hash |-> h]
DefaultVoice == VoiceId("", <<"default">>, 0)
VoiceIds == {DefaultVoice, VoiceId("fallback_", <<"v">>, 0)}
\* voice_id.startswith('fallback_')
IsFallbackVoice(v) == v.prefix = "fallback_"

\* The voice cloning service is not observed.
VoiceIdle ==
    /\ hash_seed = 1
    /\ voice_known = {}
    /\ voice_call = [op |-> "none"]

\* No job is being served: the state of the job variables after the service
\* was constructed.
NoEntry == [op |-> "none"]

JobIdle ==
    /\ entry_call = NoEntry
    /\ fs = <<>>
    /\ job = 0 /\ pc = "idle"
    /\ script = <<>> /\ voice_id = DefaultVoice
    /\ include_subtitles = FALSE /\ background_music = FALSE
    /\ scenes = <<>> /\ loop = "none" /\ i = 1
    /\ audio_files = <<>> /\ image_files = <<>> /\ video_segments = <<>>
    /\ remote_ok = FALSE
    /\ usable = {} /\ concat_list = <<>> /\ calls = {} /\ exc = "none"
    /\ concat = "none"
    /\ result = NoResult

\* ------------------------------------------------- the Dzongkha service
\* An object's attributes are the fields of a record: hasattr is membership
\* in its domain.
HasAttr(self, attr) == attr \in DOMAIN self
GetAttr(self, attr, default) == IF HasAttr(self, attr) THEN self[attr] ELSE default
SetAttr(self, attr, value) == (attr :> value) @@ self

\* DzongkhaService.__init__, before load_models.
NewService == [temp_dir |-> "dzongkha_service"]

\* DzongkhaService.setup_fallback_tts: what `espeak --voices` did: it
\* listed a Dzongkha voice ("dz"), it listed none ("no_dz"), or it could not
\* be run ("raise").
setup_fallback_tts(self, espeak) ==
    CASE espeak = "dz" ->
           SetAttr(SetAttr(self, "tts_engine", "espeak"), "tts_available", TRUE)
      [] espeak = "no_dz" ->
           SetAttr(SetAttr(self, "tts_engine", "synthetic"), "tts_available", TRUE)
      [] OTHER -> SetAttr(self, "tts_available", FALSE)

\* DzongkhaService.load_tts_model: the model is assigned before the
\* tokenizer is loaded.
load_tts_model(self, vits_ok, tokenizer_ok, espeak) ==
    IF vits_ok /\ tokenizer_ok
    THEN SetAttr(SetAttr(SetAttr(self, "tts_model", "facebook/mms-tts-dzo"),
                         "tts_tokenizer", "facebook/mms-tts-dzo"),
                 "tts_available", TRUE)
    ELSE setup_fallback_tts(IF vits_ok
                            THEN SetAttr(self, "tts_model", "facebook/mms-tts-dzo")
                            ELSE self,
                            espeak)

\* DzongkhaService.load_asr_model, with setup_fallback_asr.
load_asr_model(self, whisper_ok) ==
    IF whisper_ok
    THEN SetAttr(SetAttr(self, "asr_model", "base"), "asr_available", TRUE)
    ELSE SetAttr(self, "asr_available", FALSE)

\* load_translation_model announcing a model
load_translation_model_wired(self) == SetAttr(self, "translation_available", TRUE)

\* DzongkhaService.load_translation_model: both branches say False.
load_translation_model(self) == SetAttr(self, "translation_available", FALSE)

\* DzongkhaService.load_models: the three loaders catch their own
\* exceptions.
load_models(self, vits_ok, tokenizer_ok, espeak, whisper_ok) ==
    load_translation_model(
        load_asr_model(load_tts_model(self, vits_ok, tokenizer_ok, espeak),
                       whisper_ok))

\* The services construction can leave.
LoadedServices ==
    {load_models(NewService, vits_ok, tokenizer_ok, espeak, whisper_ok) :
        vits_ok \in BOOLEAN, tokenizer_ok \in BOOLEAN,
        espeak \in {"dz", "no_dz", "raise"}, whisper_ok \in BOOLEAN}

\* Texts are sequences of code points: a space, a Latin letter, and code
\* points in, at the ends of and next to the Tibetan block.
DzChars == {32, 97, 3839, 3840, 3904, 4095, 4096}
DzTexts == SeqsUpTo(DzChars, MaxTextLen)

\* The code points str.strip() removes (str.isspace).
WhitespaceCodes ==
    {9, 10, 11, 12, 13, 28, 29, 30, 31, 32, 133, 160, 5760}
        \cup (8192..8202) \cup {8232, 8233, 8239, 8287, 12288}

\* char.strip() is empty
IsWhitespace(c) == c \in WhitespaceCodes

NonWhitespace(text) == SelectSeq(text, LAMBDA c : ~IsWhitespace(c))

\* dzongkha_ranges: the Tibetan script block, 0x0F00 to 0x0FFF
TibetanFirst == 3840
TibetanLast == 4095
InDzongkhaRanges(c) == TibetanFirst <= c /\ c <= TibetanLast

\* A quotient of two counts, kept exact.
Ratio(n, d) == [num |-> n, den |-> d]

Detection(language, confidence) ==
    [language |-> language, confidence |-> confidence]

\* detect_language without its test of total_chars
detect_language_unguarded(self, text) ==
    LET total_chars == Len(NonWhitespace(text))
        dzongkha_chars == Len(SelectSeq(NonWhitespace(text), InDzongkhaRanges))
    IN  IF 2 * dzongkha_chars > total_chars
        THEN Detection("dz", Ratio(dzongkha_chars, total_chars))
        ELSE Detection("other", Ratio(total_chars - dzongkha_chars, total_chars))

\* detect_language with its comparison against 0.5 made non-strict
detect_language_at_half(self, text) ==
    LET total_chars == Len(NonWhitespace(text))
        dzongkha_chars == Len(SelectSeq(NonWhitespace(text), InDzongkhaRanges))
    IN  IF total_chars = 0
        THEN Detection("unknown", Ratio(0, 1))
        ELSE IF 2 * dzongkha_chars >= total_chars
        THEN Detection("dz", Ratio(dzongkha_chars, total_chars))
        ELSE Detection("other", Ratio(total_chars - dzongkha_chars, total_chars))

\* DzongkhaService.detect_language: confidence = dzongkha_chars /
\* total_chars, compared with 0.5; "other" carries 1.0 - confidence.
detect_language(self, text) ==
    LET total_chars == Len(NonWhitespace(text))
        dzongkha_chars == Len(SelectSeq(NonWhitespace(text), InDzongkhaRanges))
    IN  IF total_chars = 0
        THEN Detection("unknown", Ratio(0, 1))
        ELSE IF 2 * dzongkha_chars > total_chars
        THEN Detection("dz", Ratio(dzongkha_chars, total_chars))
        ELSE Detection("other", Ratio(total_chars - dzongkha_chars, total_chars))

\* len(text.split()): the runs of non-whitespace.
RECURSIVE WordCount(_, _)
WordCount(text, in_word) ==
    IF text = <<>> THEN 0
    ELSE IF IsWhitespace(Head(text)) THEN WordCount(Tail(text), FALSE)
    ELSE (IF in_word THEN 0 ELSE 1) + WordCount(Tail(text), TRUE)

\* validate_dzongkha_text judging by the confidence instead of the language
validate_dzongkha_text_by_confidence(self, text) ==
    LET detection == detect_language(self, text)
    IN  [is_valid |-> 2 * detection.confidence.num > detection.confidence.den,
         confidence |-> detection.confidence,
         character_count |-> Len(text),
         word_estimate |-> IF text # <<>> THEN WordCount(text, FALSE) ELSE 0]

\* DzongkhaService.validate_dzongkha_text
validate_dzongkha_text(self, text) ==
    LET detection == detect_language(self, text)
    IN  [is_valid |-> detection.language = "dz",
         confidence |-> detection.confidence,
         character_count |-> Len(text),
         word_estimate |-> IF text # <<>> THEN WordCount(text, FALSE) ELSE 0]

\* DzongkhaService.get_dzongkha_capabilities
get_dzongkha_capabilities(self) ==
    [tts_available |-> GetAttr(self, "tts_available", FALSE),
     asr_available |-> GetAttr(self, "asr_available", FALSE),
     translation_available |-> GetAttr(self, "translation_available", FALSE),
     text_validation |-> TRUE,
     language_detection |-> TRUE,
     models_loaded |-> [tts_model |-> HasAttr(self, "tts_model"),
                        asr_model |-> HasAttr(self, "asr_model"),
                        translation_model |-> HasAttr(self, "translation_model")]]

\* The language codes of a request: 'dz' and 'en', as code points.
Langs == {<<100, 122>>, <<101, 110>>}

\* The pieces of the f-string of translate_fallback, as code points:
\* "[Translation from ", " to " and " not available] ".
NoteOpen == <<91, 84, 114, 97, 110, 115, 108, 97, 116, 105, 111, 110, 32, 102, 114, 111, 109, 32>>
NoteTo == <<32, 116, 111, 32>>
NoteClose ==
    <<32, 110, 111, 116, 32, 97, 118, 97, 105, 108, 97, 98, 108, 101, 93, 32>>

\* DzongkhaService.translate_fallback
translate_fallback(text, source_lang, target_lang) ==
    [translated_text |->
         NoteOpen \o source_lang \o NoteTo \o target_lang \o NoteClose \o text,
     confidence |-> Ratio(0, 1),
     source_lang |-> source_lang,
     target_lang |-> target_lang,
     error |-> "Translation model not available"]

\* DzongkhaService.translate_text: the class has no translate_with_model,
\* so with translation_available set the call is an AttributeError, which the
\* except branch answers with the text as it came.
translate_text(self, text, source_lang, target_lang) ==
    IF ~HasAttr(self, "translation_available") \/ self.translation_available
    THEN [translated_text |-> text,
          confidence |-> Ratio(0, 1),
          error |-> "AttributeError"]
    ELSE translate_fallback(text, source_lang, target_lang)

\* DzongkhaService.speech_to_text_dzongkha: Whisper when asr_model is set and
\* asr_available is true, the fixed answer of transcribe_fallback otherwise
\* and when the model or the database write raises.
speech_to_text_dzongkha(self, transcribe_ok) ==
    IF HasAttr(self, "asr_model") /\ GetAttr(self, "asr_available", FALSE)
       /\ transcribe_ok
    THEN [text |-> "transcription", confidence |-> Ratio(4, 5), language |-> "dz"]
    ELSE [text |-> "[Dzongkha speech transcription not available]",
          confidence |-> Ratio(0, 1), language |-> "dz",
          error |-> "ASR model not available"]

\* self after one of the operations: none of them assigns an attribute, a
\* fallback branch included.
self_after_demoting(self, op) ==
    IF op = "text_to_speech_dzongkha" THEN SetAttr(self, "tts_available", FALSE)
    ELSE self

self_after(self, op) == self

NoDetection == [called |-> FALSE, result |-> Detection("none", Ratio(0, 1))]
NoCall == [op |-> "none"]

\* The Dzongkha service is not observed.
DzIdle ==
    /\ dz_service = NewService
    /\ dz_text = <<>>
    /\ dz_detected = NoDetection
    /\ dz_call = NoCall

\* ------------------------------------------------- the segmenters, called
SegInit ==
    /\ seg_script \in Scripts
    /\ seg_fn = "none"
    /\ seg_out = <<>>
    /\ seg_raised = FALSE
    /\ svc = "none" /\ client = FALSE /\ tts_engine = "synthetic"
    /\ JobIdle
    /\ DzIdle
    /\ VoiceIdle

\* video.py split_script_into_segments(script)
CallSplitScriptIntoSegments ==
    /\ seg_fn' = "split_script_into_segments"
    /\ seg_out' = split_script_into_segments(seg_script)
    /\ seg_raised' = FALSE
    /\ UNCHANGED <<seg_script, jobVars, dzVars, voiceVars, entryVars>>

\* OfflineAIService.split_script(script)
CallSplitScript ==
    /\ seg_fn' = "split_script"
    /\ seg_out' = split_script(seg_script)
    /\ seg_raised' = FALSE
    /\ UNCHANGED <<seg_script, jobVars, dzVars, voiceVars, entryVars>>

\* AdvancedVideoGenerationService._parse_script_into_scenes(script): the bare
\* except leaves no exception to the caller.
CallParseScriptIntoScenes ==
    \E response \in AiResponses :
        /\ seg_fn' = CASE response.kind = "scenes" -> "_parse_script_into_scenes:ai"
                       [] response.kind = "no_scenes_key" ->
                              "_parse_script_into_scenes:default"
                       [] OTHER -> "_parse_script_into_scenes:fallback"
        /\ seg_out' = _parse_script_into_scenes(seg_script, response)
        /\ seg_raised' = FALSE
        /\ UNCHANGED <<seg_script, jobVars, dzVars, voiceVars, entryVars>>

SegNext ==
    \/ CallSplitScriptIntoSegments
    \/ CallSplitScript
    \/ CallParseScriptIntoScenes

SpecSegment == SegInit /\ [][SegNext]_vars

\* ------------------------------------------------------- the job, started
JobServices == {"video", "offline", "advanced"}
\* The scripts of the jobs: a long word, a blank and a sentence end suffice
\* for every shape of segmenter result (none, one, several scenes).
JobAlphabet == {"W", " ", "."}
\* A script of three sentences, each too long to share a segment.
ThreeSceneScript == <<"W", ".", "W", ".", "W">>
JobScripts == SeqsUpTo(JobAlphabet, MaxJobScriptLen) \cup {ThreeSceneScript}
Terminal == {"completed", "failed", "rejected", "error"}

Response(status, code, path) ==
    [status |-> status, code |-> code, path |-> path, degraded |-> {}]

\* The route (video.py generate_video, offline_video.py generate_video_offline)
\* or the call (generate_video_from_script) that starts a job.  The routes
\* answer 400 to an empty script; generate_video_from_script has no such test.
Submit ==
    /\ pc \in {"idle"} \cup Terminal
    /\ job < MaxJobs
    /\ \E sc \in JobScripts, v \in VoiceIds, subs \in BOOLEAN, music \in BOOLEAN :
        \* only generate_speech looks at the voice id, and only
        \* generate_video_from_script has options; background_music keeps
        \* its default
        /\ svc # "video" => v = DefaultVoice
        /\ svc # "advanced" => ~subs
        /\ ~music
        /\ job' = job + 1
        /\ script' = sc /\ voice_id' = v
        /\ include_subtitles' = subs /\ background_music' = music
        /\ IF svc \in {"video", "offline"} /\ sc = <<>>
           THEN /\ pc' = "rejected"
                /\ result' = Response("error", 400, NoPath)
           ELSE /\ pc' = "created"
                /\ result' = NoResult
        /\ scenes' = <<>> /\ loop' = "none" /\ i' = 1
        /\ audio_files' = <<>> /\ image_files' = <<>> /\ video_segments' = <<>>
        /\ remote_ok' = FALSE
        /\ usable' = {} /\ concat_list' = <<>> /\ calls' = {} /\ exc' = "none"
        /\ concat' = "none"
        /\ UNCHANGED <<segVars, dzVars, voiceVars, entryVars, cfgVars, svc, fs>>

\* The segmentation step of process_video_generation, generate_video_offline
\* and generate_video_from_script.
Segment ==
    /\ pc = "created"
    /\ \E response \in AiResponses :
        /\ svc # "advanced" => response.kind = "error"
        /\ scenes' = CASE svc = "video" -> split_script_into_segments(script)
                       [] svc = "offline" -> split_script(script)
                       [] OTHER -> _parse_script_into_scenes(script, response)
        /\ remote_ok' = (svc = "advanced"
                          /\ response.kind \in {"scenes", "no_scenes_key"})
        /\ calls' = IF svc = "advanced" THEN calls \cup {"capability"} ELSE calls
    /\ pc' = "segmented"
    /\ loop' = IF svc = "video" THEN "audio" ELSE "scene"
    /\ i' = 1
    /\ UNCHANGED <<segVars, dzVars, voiceVars, entryVars, svc, cfgVars, fs, reqVars, audio_files, image_files,
                   video_segments, usable, concat_list, concat, exc, result>>

\* --------------------------------------------------- capability providers
\* VoiceCloningService._generate_with_fallback: OpenAI speech, then silent
\* audio from ffmpeg run with check=True.  The result names the strategy
\* that wrote the file; "raise" is the CalledProcessError.
_generate_with_fallback(openai_ok, ffmpeg_ok) ==
    IF openai_ok THEN "openai"
    ELSE IF ffmpeg_ok THEN "silent" ELSE "raise"

\* VoiceCloningService._generate_with_elevenlabs
_generate_with_elevenlabs(eleven_ok, openai_ok, ffmpeg_ok) ==
    IF eleven_ok THEN "elevenlabs"
    ELSE _generate_with_fallback(openai_ok, ffmpeg_ok)

\* VoiceCloningService.generate_speech
generate_speech(has_client, v, eleven_ok, openai_ok, ffmpeg_ok) ==
    IF has_client /\ ~IsFallbackVoice(v)
    THEN _generate_with_elevenlabs(eleven_ok, openai_ok, ffmpeg_ok)
    ELSE _generate_with_fallback(openai_ok, ffmpeg_ok)

\* ImageGenerationService._generate_fallback_image: a coloured frame, then a
\* black frame, both from ffmpeg run with check=True.
_generate_fallback_image(color_ok, black_ok) ==
    IF color_ok THEN "color"
    ELSE IF black_ok THEN "black" ELSE "raise"

\* ImageGenerationService.generate_image_from_text
generate_image_from_text(dalle_ok, color_ok, black_ok) ==
    IF dalle_ok THEN "dalle"
    ELSE _generate_fallback_image(color_ok, black_ok)

\* OfflineAIService.generate_speech_offline: the engine chosen at setup, and
\* the tone generator when the engine's process fails.
generate_speech_offline(engine, engine_ok) ==
    IF engine \in {"espeak", "festival"} /\ engine_ok THEN engine
    ELSE "synthetic"

\* AdvancedVideoGenerationService._generate_scene_visual: the remote
\* generator, then the PIL fallback image.
_generate_scene_visual(dalle_ok) ==
    IF dalle_ok THEN "dalle" ELSE "fallback"

\* AdvancedVideoGenerationService._generate_scene_audio: OpenAI speech, then
\* silent audio from ffmpeg, whose exit status is not looked at: "missing"
\* is a return with no file written.
_generate_scene_audio(openai_ok, ffmpeg_ok) ==
    IF openai_ok THEN "openai"
    ELSE IF ffmpeg_ok THEN "silent" ELSE "missing"

RemoteSources == {"elevenlabs", "openai", "dalle"}

\* What the outside calls of one capability call did, one flag per call in
\* the order the cascade makes them.  A call the cascade does not reach has
\* no outcome; only the vectors where it is marked as succeeding are drawn.
Outcomes(n) ==
    {o \in [1..n -> BOOLEAN] : \A a \in 1..n, b \in 1..n : (a < b /\ o[a]) => o[b]}

\* ---------------------------------------------------- the job, generating
OutputsPath(j, kind, idx) == Path("outputs", j, kind, idx, <<>>)
OfflinePath(kind, idx, key) == Path("offline_ai", 0, kind, idx, key)
AdvancedPath(kind, idx) == Path("video_generation", 0, kind, idx, <<>>)

Error500 == Response("error", 500, NoPath)

Generating == pc \in {"segmented", "generating"}

\* The content of a segment muxed from an image and an audio file.
Mux(image, audio) == IF image = audio THEN image ELSE image \o audio

\* process_video_generation, one turn of the audio loop.  An exception of
\* generate_speech is re-raised by process_video_generation and answered
\* with 500 by generate_video.
VideoGenerateAudio ==
    /\ Generating /\ svc = "video" /\ loop = "audio" /\ i <= Len(scenes)
    /\ IF Strip(scenes[i]) = <<>>
       THEN UNCHANGED <<fs, audio_files, remote_ok, calls, exc, result>>
            /\ pc' = "generating"
       ELSE \E ok \in Outcomes(3) :
            LET how == generate_speech(client, voice_id, ok[1], ok[2], ok[3])
                audio_file == OutputsPath(job, "audio", i)
            IN  /\ calls' = calls \cup {"capability"}
                              \cup (IF how # "raise" THEN {"write"} ELSE {})
                /\ remote_ok' = (remote_ok \/ how \in RemoteSources)
                /\ IF how = "raise"
                   THEN /\ pc' = "failed"
                        /\ exc' = "generate_speech"
                        /\ result' = Error500
                        /\ UNCHANGED <<fs, audio_files>>
                   ELSE /\ pc' = "generating"
                        /\ fs' = Write(fs, audio_file, Material(job, i))
                        /\ audio_files' = Append(audio_files, audio_file)
                        /\ UNCHANGED <<exc, result>>
    /\ i' = i + 1
    /\ UNCHANGED <<segVars, dzVars, voiceVars, entryVars, svc, cfgVars, reqVars, scenes, loop, image_files,
                   video_segments, usable, concat_list, concat>>

\* process_video_generation, the audio loop is over: the image loop starts.
VideoAudioDone ==
    /\ Generating /\ svc = "video" /\ loop = "audio" /\ i > Len(scenes)
    /\ loop' = "image" /\ i' = 1 /\ pc' = "generating"
    /\ UNCHANGED <<segVars, dzVars, voiceVars, entryVars, svc, cfgVars, fs, reqVars, scenes, audio_files,
                   image_files, video_segments, remote_ok, usable,
                   concat_list, concat, calls, exc, result>>

\* process_video_generation, one turn of the image loop.
VideoGenerateImage ==
    /\ Generating /\ svc = "video" /\ loop = "image" /\ i <= Len(scenes)
    /\ IF Strip(scenes[i]) = <<>>
       THEN UNCHANGED <<pc, fs, image_files, remote_ok, calls, exc, result>>
       ELSE \E ok \in Outcomes(3) :
            LET how == generate_image_from_text(ok[1], ok[2], ok[3])
                image_file == OutputsPath(job, "image", i)
            IN  /\ calls' = calls \cup {"capability"}
                              \cup (IF how # "raise" THEN {"write"} ELSE {})
                /\ remote_ok' = (remote_ok \/ how \in RemoteSources)
                /\ IF how = "raise"
                   THEN /\ pc' = "failed"
                        /\ exc' = "generate_image_from_text"
                        /\ result' = Error500
                        /\ UNCHANGED <<fs, image_files>>
                   ELSE /\ fs' = Write(fs, image_file, Material(job, i))
                        /\ image_files' = Append(image_files, image_file)
                        /\ UNCHANGED <<pc, exc, result>>
    /\ i' = i + 1
    /\ UNCHANGED <<segVars, dzVars, voiceVars, entryVars, svc, cfgVars, reqVars, scenes, loop, audio_files,
                   video_segments, usable, concat_list, concat>>

\* generate_video_offline, one turn of its loop: generate_speech_offline,
\* generate_image_offline, create_video_segment.  The files are named after
\* the hash of the text and after the index; ffmpeg's exit status is not
\* looked at, and a failed ffmpeg leaves the path as it was.
OfflineGenerateScene ==
    /\ Generating /\ svc = "offline" /\ loop = "scene" /\ i <= Len(scenes)
    /\ \E engine_ok \in BOOLEAN, ffmpeg_ok \in BOOLEAN :
        LET how == generate_speech_offline(tts_engine, engine_ok)
            audio_path == OfflinePath("speech", 0, scenes[i])
            image_path == OfflinePath("image", 0, scenes[i])
            segment_path == OfflinePath("segment", i, <<>>)
            fs1 == Write(Write(fs, audio_path, Material(job, i)),
                         image_path, Material(job, i))
        IN  /\ how \in {"espeak", "festival", "synthetic"}
            /\ fs' = IF ffmpeg_ok
                     THEN Write(fs1, segment_path, Mux(fs1[image_path], fs1[audio_path]))
                     ELSE fs1
            /\ video_segments' = Append(video_segments, segment_path)
            /\ usable' = IF ffmpeg_ok THEN usable \cup {i} ELSE usable
            /\ calls' = calls \cup {"capability", "write", "muxer"}
    /\ pc' = "generating"
    /\ i' = i + 1
    /\ UNCHANGED <<segVars, dzVars, voiceVars, entryVars, svc, cfgVars, reqVars, scenes, loop, audio_files,
                   image_files, remote_ok, concat_list, concat, exc, result>>

\* generate_video_from_script, one turn of its loop: _generate_scene_clip.
\* A scene without 'visual_description' is a KeyError nobody catches.  No
\* exit status of ffmpeg is looked at, so the audio, the clip and the
\* subtitled clip may be missing when the path is returned.
AdvancedGenerateScene ==
    /\ Generating /\ svc = "advanced" /\ loop = "scene" /\ i <= Len(scenes)
    /\ IF DOMAIN scenes[i] # {"text", "visual_description"}
       THEN /\ pc' = "error"
            /\ exc' = "_generate_scene_clip"
            /\ UNCHANGED <<fs, remote_ok, video_segments, usable, calls>>
       ELSE \E dalle_ok \in BOOLEAN, audio_ok \in Outcomes(2),
               clip_ok \in BOOLEAN, subs_ok \in BOOLEAN :
            LET visual_how == _generate_scene_visual(dalle_ok)
                audio_how == _generate_scene_audio(audio_ok[1], audio_ok[2])
                visual_path == AdvancedPath("visual", i)
                audio_path == AdvancedPath("audio", i)
                clip_path == AdvancedPath("clip", i)
                srt_path == AdvancedPath("srt", i)
                subtitled_path == AdvancedPath("subtitled", i)
                fs1 == Write(fs, visual_path, Material(job, i))
                fs2 == IF audio_how = "missing" THEN fs1
                       ELSE Write(fs1, audio_path, Material(job, i))
                fs3 == IF clip_ok /\ Exists(fs2, audio_path)
                       THEN Write(fs2, clip_path, Mux(fs2[visual_path], fs2[audio_path]))
                       ELSE fs2
                fs4 == IF ~include_subtitles THEN fs3
                       ELSE LET fs_srt == Write(fs3, srt_path, Material(job, i))
                            IN  IF subs_ok /\ Exists(fs3, clip_path)
                                THEN Write(fs_srt, subtitled_path, fs3[clip_path])
                                ELSE fs_srt
                clip == IF include_subtitles THEN subtitled_path ELSE clip_path
            IN  /\ fs' = fs4
                /\ remote_ok' = (remote_ok \/ visual_how \in RemoteSources
                                           \/ audio_how \in RemoteSources)
                /\ video_segments' = Append(video_segments, clip)
                /\ usable' = IF Exists(fs4, clip) /\ fs4[clip] = Material(job, i)
                             THEN usable \cup {i} ELSE usable
                /\ calls' = calls \cup {"capability", "write", "muxer"}
                /\ pc' = "generating"
                /\ UNCHANGED exc
    /\ i' = i + 1
    /\ UNCHANGED <<segVars, dzVars, voiceVars, entryVars, svc, cfgVars, reqVars, scenes, loop, audio_files,
                   image_files, concat_list, concat, result>>

\* The last loop of the handler is over: the assembler is called.
LoopDone ==
    /\ Generating /\ i > Len(scenes)
    /\ loop = IF svc = "video" THEN "image" ELSE "scene"
    /\ pc' = "assembling"
    /\ UNCHANGED <<segVars, dzVars, voiceVars, entryVars, svc, cfgVars, fs, reqVars, scenes, loop, i,
                   audio_files, image_files, video_segments, remote_ok, usable,
                   concat_list, concat, calls, exc, result>>

\* ----------------------------------------------------- the job, assembling
\* The paths of `paths` that exist, in order.
RECURSIVE Existing(_, _)
Existing(files, paths) ==
    IF paths = <<>> THEN <<>>
    ELSE IF Exists(files, Head(paths))
         THEN <<Head(paths)>> \o Existing(files, Tail(paths))
         ELSE Existing(files, Tail(paths))

\* The contents of the files at `paths`, last path first.
Contents_reversed(files, paths) ==
    [k \in 1..Len(paths) |-> files[paths[Len(paths) + 1 - k]]]

\* The contents of the files at `paths`, in order.
Contents(files, paths) == [k \in 1..Len(paths) |-> files[paths[k]]]

\* What the muxer's concat mode writes: the listed contents, one after another.
RECURSIVE Concatenation(_)
Concatenation(contents) ==
    IF contents = <<>> THEN <<>>
    ELSE Head(contents) \o Concatenation(Tail(contents))

RECURSIVE RemoveAll(_, _)
RemoveAll(files, paths) ==
    IF paths = <<>> THEN files
    ELSE RemoveAll(Remove(files, Head(paths)), Tail(paths))

\* What an assembler leaves: the files, the path it returned (NoPath: None),
\* the segments it listed for the muxer and how the concat call ended.
Assembled(files, path, listed, how) ==
    [fs |-> files, path |-> path, listed |-> listed, concat |-> how]

\* The loop of combine_media_to_video muxing every image with the first
\* audio file.
RECURSIVE BuildSegments_first_audio(_, _, _, _, _, _, _)
BuildSegments_first_audio(files, audios, images, j, build_ok, k, segment_videos) ==
    IF k > Len(audios) \/ k > Len(images)
    THEN [fs |-> files, segment_videos |-> segment_videos]
    ELSE IF Exists(files, audios[k]) /\ Exists(files, images[k]) /\ build_ok[k]
         THEN BuildSegments_first_audio(
                  Write(files, OutputsPath(j, "segment", k),
                        Mux(files[images[k]], files[audios[1]])),
                  audios, images, j, build_ok, k + 1,
                  Append(segment_videos, OutputsPath(j, "segment", k)))
         ELSE BuildSegments_first_audio(files, audios, images, j, build_ok, k + 1,
                                        segment_videos)

\* combine_media_to_video, the loop over zip(audio_files, image_files): a
\* pair whose ffmpeg run fails is skipped.
RECURSIVE BuildSegments(_, _, _, _, _, _, _)
BuildSegments(files, audios, images, j, build_ok, k, segment_videos) ==
    IF k > Len(audios) \/ k > Len(images)
    THEN [fs |-> files, segment_videos |-> segment_videos]
    ELSE IF Exists(files, audios[k]) /\ Exists(files, images[k]) /\ build_ok[k]
         THEN BuildSegments(
                  Write(files, OutputsPath(j, "segment", k),
                        Mux(files[images[k]], files[audios[k]])),
                  audios, images, j, build_ok, k + 1,
                  Append(segment_videos, OutputsPath(j, "segment", k)))
         ELSE BuildSegments(files, audios, images, j, build_ok, k + 1,
                            segment_videos)

\* combine_media_to_video, the except branch: one more ffmpeg run over the
\* first pair, its exit status not looked at; video_path is returned.
CombineFallback(files, audios, images, j, fallback_ok, listed, how) ==
    Assembled(IF audios # <<>> /\ images # <<>> /\ fallback_ok
              THEN Write(files, OutputsPath(j, "final", 0),
                         Mux(files[images[1]], files[audios[1]]))
              ELSE files,
              OutputsPath(j, "final", 0), listed, how)

\* video.py combine_media_to_video
combine_media_to_video(files, audios, images, j, build_ok, cp_ok, concat_ok, fallback_ok) ==
    LET video_path == OutputsPath(j, "final", 0)
        built == BuildSegments(files, audios, images, j, build_ok, 1, <<>>)
        segment_videos == built.segment_videos
        listed == Contents(built.fs, segment_videos)
        with_list == Write(built.fs, OutputsPath(j, "concat", 0),
                           Concatenation(listed))
    IN  IF audios = <<>> \/ images = <<>>
        THEN CombineFallback(files, audios, images, j, fallback_ok, <<>>, "none")
        ELSE IF segment_videos = <<>>
        THEN CombineFallback(built.fs, audios, images, j, fallback_ok, <<>>, "none")
        ELSE IF Len(segment_videos) = 1
        THEN IF cp_ok
             THEN Assembled(RemoveAll(Write(built.fs, video_path, listed[1]),
                                      segment_videos),
                            video_path, listed, "none")
             ELSE CombineFallback(built.fs, audios, images, j, fallback_ok,
                                  listed, "none")
        ELSE IF concat_ok
             THEN Assembled(RemoveAll(Write(with_list, video_path,
                                            Concatenation(listed)),
                                      segment_videos),
                            video_path, listed, "ok")
             ELSE IF cp_ok
                  THEN Assembled(RemoveAll(Write(with_list, video_path, listed[1]),
                                           segment_videos),
                                 video_path, listed, "failed")
                  ELSE CombineFallback(with_list, audios, images, j, fallback_ok,
                                       listed, "failed")

\* OfflineAIService.combine_video_segments: cp and ffmpeg run unchecked, and
\* final_path is returned whatever they did.
combine_video_segments(files, segments, cp_ok, concat_ok) ==
    LET final_path == OfflinePath("final", 0, <<>>)
        listed == Contents(files, Existing(files, segments))
        with_list == Write(files, OfflinePath("concat", 0, <<>>),
                           Concatenation(listed))
    IN  IF segments = <<>>
        THEN Assembled(files, NoPath, <<>>, "none")
        ELSE IF Len(segments) = 1
        THEN Assembled(IF cp_ok /\ Exists(files, segments[1])
                       THEN Write(files, final_path, files[segments[1]])
                       ELSE files,
                       final_path, listed, "none")
        ELSE IF concat_ok /\ listed # <<>>
             THEN Assembled(Write(with_list, final_path, Concatenation(listed)),
                            final_path, listed, "ok")
             ELSE Assembled(with_list, final_path, listed, "failed")

\* AdvancedVideoGenerationService._combine_clips, with _generate_background_music
\* and _add_background_music: every ffmpeg run unchecked.
_combine_clips(files, video_clips, music, concat_ok, music_ok, mix_ok) ==
    LET final_path == AdvancedPath("final", 0)
        music_path == AdvancedPath("music", 0)
        final_with_music == AdvancedPath("final_with_music", 0)
        listed == Contents(files, Existing(files, video_clips))
        with_list == Write(files, AdvancedPath("concat", 0), Concatenation(listed))
        concat_done == concat_ok /\ listed # <<>>
        fs1 == IF concat_done
               THEN Write(with_list, final_path, Concatenation(listed))
               ELSE with_list
        fs2 == IF music_ok THEN Write(fs1, music_path, <<>>) ELSE fs1
        fs3 == IF mix_ok /\ Exists(fs2, final_path) /\ Exists(fs2, music_path)
               THEN Write(fs2, final_with_music, fs2[final_path])
               ELSE fs2
        how == IF concat_done THEN "ok" ELSE "failed"
    IN  IF video_clips = <<>>
        THEN Assembled(files, NoPath, <<>>, "none")
        ELSE IF music
             THEN Assembled(fs3, final_with_music, listed, how)
             ELSE Assembled(fs1, final_path, listed, how)

\* The scenes whose segment is among the listed contents.
ScenesOf(j, listed) ==
    {k \in 1..Len(scenes) : \E n \in 1..Len(listed) : listed[n] = Material(j, k)}

\* process_video_generation calls combine_media_to_video and generate_video
\* answers: every return of combine_media_to_video is answered 'completed'.
VideoAssemble ==
    /\ pc = "assembling" /\ svc = "video"
    /\ \E build_ok \in [1..Len(audio_files) -> BOOLEAN], cp_ok \in BOOLEAN,
          concat_ok \in BOOLEAN, fallback_ok \in BOOLEAN :
        LET done == combine_media_to_video(fs, audio_files, image_files, job,
                                           build_ok, cp_ok, concat_ok, fallback_ok)
        IN  /\ fs' = done.fs
            /\ concat_list' = done.listed
            /\ concat' = done.concat
            /\ usable' = ScenesOf(job, done.listed)
            /\ result' = Response("completed", 200, done.path)
            /\ calls' = IF audio_files = <<>> \/ image_files = <<>>
                        THEN calls ELSE calls \cup {"muxer", "write"}
    /\ pc' = "completed"
    /\ UNCHANGED <<segVars, dzVars, voiceVars, entryVars, svc, cfgVars, reqVars, scenes, loop, i, audio_files,
                   image_files, video_segments, remote_ok, exc>>

\* generate_video_offline calls combine_video_segments, and the route
\* answers 'completed' when the returned path exists and 500 otherwise.
OfflineAssemble ==
    /\ pc = "assembling" /\ svc = "offline"
    /\ \E cp_ok \in BOOLEAN, concat_ok \in BOOLEAN :
        LET done == combine_video_segments(fs, video_segments, cp_ok, concat_ok)
        IN  /\ fs' = done.fs
            /\ concat_list' = done.listed
            /\ concat' = done.concat
            /\ calls' = IF video_segments = <<>> THEN calls
                        ELSE calls \cup {"muxer", "write"}
            /\ IF done.path # NoPath /\ Exists(done.fs, done.path)
               THEN /\ pc' = "completed"
                    /\ result' = Response("completed", 200, done.path)
               ELSE /\ pc' = "failed"
                    /\ result' = Error500
    /\ UNCHANGED <<segVars, dzVars, voiceVars, entryVars, svc, cfgVars, reqVars, scenes, loop, i, audio_files,
                   image_files, video_segments, remote_ok, usable, exc>>

\* generate_video_from_script calls _combine_clips and returns what it
\* returned: None without clips, a path otherwise.
AdvancedAssemble ==
    /\ pc = "assembling" /\ svc = "advanced"
    /\ \E concat_ok \in BOOLEAN, music_ok \in BOOLEAN, mix_ok \in BOOLEAN :
        LET done == _combine_clips(fs, video_segments, background_music,
                                   concat_ok, music_ok, mix_ok)
        IN  /\ fs' = done.fs
            /\ concat_list' = done.listed
            /\ concat' = done.concat
            /\ calls' = IF video_segments = <<>> THEN calls
                        ELSE calls \cup {"muxer", "write"}
            /\ IF done.path # NoPath
               THEN /\ pc' = "completed"
                    /\ result' = Response("returned", 0, done.path)
               ELSE /\ pc' = "failed"
                    /\ result' = Response("returned", 0, NoPath)
    /\ UNCHANGED <<segVars, dzVars, voiceVars, entryVars, svc, cfgVars, reqVars, scenes, loop, i, audio_files,
                   image_files, video_segments, remote_ok, usable, exc>>

JobNext ==
    \/ Submit
    \/ Segment
    \/ VideoGenerateAudio
    \/ VideoAudioDone
    \/ VideoGenerateImage
    \/ OfflineGenerateScene
    \/ AdvancedGenerateScene
    \/ LoopDone
    \/ VideoAssemble
    \/ OfflineAssemble
    \/ AdvancedAssemble

\* One service is observed: the three are separate objects with separate
\* directories and share no state.  client is the VoiceCloningService's
\* (ELEVENLABS_API_KEY set or not), tts_engine the OfflineAIService's
\* (setup_local_tts).
JobInit ==
    /\ svc \in JobServices
    /\ client \in BOOLEAN /\ (svc # "video" => client = FALSE)
    /\ tts_engine \in {"espeak", "festival", "synthetic"}
    /\ svc # "offline" => tts_engine = "synthetic"
    /\ JobIdle
    /\ DzIdle
    /\ VoiceIdle
    /\ seg_script = <<>> /\ seg_fn = "none" /\ seg_out = <<>> /\ seg_raised = FALSE

Spec == JobInit /\ [][JobNext]_vars

\* ----------------------------------------- the Dzongkha service, called
\* The service as load_models left it, and a text.
DzInit ==
    /\ dz_service \in LoadedServices
    /\ dz_text \in DzTexts
    /\ dz_detected = NoDetection
    /\ dz_call = NoCall
    /\ svc = "none" /\ client = FALSE /\ tts_engine = "synthetic"
    /\ JobIdle
    /\ VoiceIdle
    /\ seg_script = <<>> /\ seg_fn = "none" /\ seg_out = <<>> /\ seg_raised = FALSE

\* DzongkhaService.detect_language(text): it assigns no attribute and
\* writes no file.
DetectLanguage ==
    /\ dz_detected' = [called |-> TRUE,
                       result |-> detect_language(dz_service, dz_text)]
    /\ UNCHANGED <<segVars, jobVars, voiceVars, entryVars, dz_text, dz_call>>
    /\ dz_service' = self_after(dz_service, "detect_language")

\* DzongkhaService.validate_dzongkha_text(text)
ValidateDzongkhaText ==
    /\ dz_call' = [op |-> "validate_dzongkha_text",
                   out |-> validate_dzongkha_text(dz_service, dz_text)]
    /\ UNCHANGED <<segVars, jobVars, voiceVars, entryVars, dz_text, dz_detected>>
    /\ dz_service' = self_after(dz_service, "validate_dzongkha_text")

\* DzongkhaService.get_dzongkha_capabilities()
GetDzongkhaCapabilities ==
    /\ dz_call' = [op |-> "get_dzongkha_capabilities",
                   out |-> get_dzongkha_capabilities(dz_service)]
    /\ UNCHANGED <<segVars, jobVars, voiceVars, entryVars, dz_text, dz_detected>>
    /\ dz_service' = self_after(dz_service, "get_dzongkha_capabilities")

\* DzongkhaService.translate_text(text, source_lang, target_lang)
TranslateText ==
    /\ \E source_lang \in Langs, target_lang \in Langs :
        dz_call' = [op |-> "translate_text",
                    out |-> translate_text(dz_service, dz_text,
                                           source_lang, target_lang)]
    /\ UNCHANGED <<segVars, jobVars, voiceVars, entryVars, dz_text, dz_detected>>
    /\ dz_service' = self_after(dz_service, "translate_text")

DzNext ==
    \/ DetectLanguage
    \/ ValidateDzongkhaText
    \/ GetDzongkhaCapabilities
    \/ TranslateText

SpecDz == DzInit /\ [][DzNext]_vars

\* ------------------------------------------ the voice cloning service
\* The uploaded samples, by path.
SamplePaths == {"a.wav", "b.wav"}
\* The names a caller asks for; <<>> is no name.
VoiceNames == {<<>>, <<"n">>}

\* The keys a process can run with.
HashSeeds == 1..MaxSeeds

\* hash(audio_file_path): the hash of a str is keyed by a value drawn when
\* the process starts, so it is a function of the process and the path.
\* Only that dependence is kept, not SipHash.
HashModulus == 10000
PathCode(p) == IF p = "a.wav" THEN 4242 ELSE 1717
Hash(seed, p) == PathCode(p) * (2 * seed + 1) + 7919 * seed

\* VoiceCloningService._fallback_voice_processing: the id
\* f"fallback_{voice_name}_{hash(audio_file_path) % 10000}".
FallbackVoiceId(seed, audio_file_path, voice_name) ==
    VoiceId("fallback_", voice_name, Hash(seed, audio_file_path) % HashModulus)

\* /tmp/voice_metadata_{voice_id}.json
MetadataPath(v) == Path("tmp", 0, "voice_metadata", v.hash, <<v.prefix>> \o v.name)

\* The id ElevenLabs gives a cloned voice, and the ids of its library.
RemoteClonedVoice == VoiceId("", <<"el_cloned">>, 0)
RemoteLibraryVoice == VoiceId("", <<"el_library">>, 0)

\* An id handed out, the service that owns it, and what it was made from.
Known(v, service, sample, name) ==
    [voice_id |-> v, service |-> service, sample |-> sample, name |-> name]

\* VoiceCloningService.clone_voice_from_sample, with _clone_with_elevenlabs
\* and _fallback_voice_processing: the entry for the id it returns.
clone_voice_from_sample(has_client, seed, audio_file_path, name, clone_ok) ==
    LET voice_name == IF name = <<>>
                      THEN <<"cloned_voice_", audio_file_path>> ELSE name
    IN  IF has_client /\ clone_ok
        THEN Known(RemoteClonedVoice, "elevenlabs", audio_file_path, name)
        ELSE Known(FallbackVoiceId(seed, audio_file_path, voice_name),
                   "fallback", audio_file_path, name)

\* The fallback_voices of list_available_voices.
PresetVoices ==
    {VoiceId("", <<p>>, 0) : p \in {"openai_alloy", "openai_echo", "openai_fable",
                                    "openai_onyx", "openai_nova", "openai_shimmer"}}

\* VoiceCloningService.list_available_voices
list_available_voices(has_client, list_ok) ==
    (IF has_client /\ list_ok
     THEN {Known(RemoteLibraryVoice, "elevenlabs", "", <<>>)} ELSE {})
    \cup {Known(v, "openai", "", <<>>) : v \in PresetVoices}

\* The providers VoiceCloningService._generate_with_fallback calls, in order.
_generate_with_fallback_calls(openai_ok) ==
    IF openai_ok THEN <<"openai">> ELSE <<"openai", "ffmpeg">>

\* The providers _generate_with_elevenlabs calls, in order.
_generate_with_elevenlabs_calls(eleven_ok, openai_ok) ==
    IF eleven_ok THEN <<"elevenlabs">>
    ELSE <<"elevenlabs">> \o _generate_with_fallback_calls(openai_ok)

\* The providers generate_speech calls, in order.
generate_speech_calls(has_client, v, eleven_ok, openai_ok) ==
    IF has_client /\ ~IsFallbackVoice(v)
    THEN _generate_with_elevenlabs_calls(eleven_ok, openai_ok)
    ELSE _generate_with_fallback_calls(openai_ok)

SpeechOutputPath == Path("tmp", 0, "speech", 0, <<>>)

\* VoiceCloningService.__init__ in a fresh process.
VoiceInit ==
    /\ client \in BOOLEAN
    /\ hash_seed \in HashSeeds
    /\ voice_known = {}
    /\ voice_call = [op |-> "none"]
    /\ svc = "none" /\ tts_engine = "synthetic"
    /\ JobIdle
    /\ DzIdle
    /\ seg_script = <<>> /\ seg_fn = "none" /\ seg_out = <<>> /\ seg_raised = FALSE

\* clone_voice_from_sample(audio_file_path, voice_name): the fallback writes
\* the metadata file before it returns.
CloneVoiceFromSample ==
    /\ Cardinality(voice_known) < MaxVoices
    /\ \E audio_file_path \in SamplePaths, name \in VoiceNames, clone_ok \in BOOLEAN :
        LET made == clone_voice_from_sample(client, hash_seed, audio_file_path,
                                            name, clone_ok)
        IN  /\ voice_known' = voice_known \cup {made}
            /\ voice_call' = [op |-> "clone_voice_from_sample", out |-> made]
            /\ fs' = IF made.service = "fallback"
                     THEN Write(fs, MetadataPath(made.voice_id), <<>>)
                     ELSE fs
    /\ UNCHANGED <<segVars, dzVars, entryVars, svc, cfgVars, reqVars, runVars, hash_seed>>

\* list_available_voices()
ListAvailableVoices ==
    /\ \E list_ok \in BOOLEAN :
        LET listed == list_available_voices(client, list_ok)
        IN  /\ voice_known' = voice_known \cup listed
            /\ voice_call' = [op |-> "list_available_voices", out |-> listed]
    /\ UNCHANGED <<segVars, dzVars, entryVars, jobVars, hash_seed>>

\* generate_speech(text, voice_id, output_path) with an id handed out before.
GenerateSpeech ==
    /\ \E known \in voice_known, ok \in Outcomes(3) :
        LET how == generate_speech(client, known.voice_id, ok[1], ok[2], ok[3])
        IN  /\ voice_call' =
                [op |-> "generate_speech", voice |-> known,
                 client |-> client,
                 calls |-> generate_speech_calls(client, known.voice_id,
                                                 ok[1], ok[2]),
                 out |-> how]
            /\ fs' = IF how = "raise" THEN fs
                     ELSE Write(fs, SpeechOutputPath, <<>>)
    /\ UNCHANGED <<segVars, dzVars, entryVars, svc, cfgVars, reqVars, runVars, hash_seed,
                   voice_known>>

\* The process ends and another starts: the environment is read again and
\* the hash key is drawn again; the ids handed out and the files stay.
Restart ==
    /\ client' \in BOOLEAN
    /\ hash_seed' \in HashSeeds
    /\ voice_call' = [op |-> "none"]
    /\ UNCHANGED <<segVars, dzVars, entryVars, svc, tts_engine, fs, reqVars, runVars,
                   voice_known>>

VoiceNext ==
    \/ CloneVoiceFromSample
    \/ ListAvailableVoices
    \/ GenerateSpeech
    \/ Restart

SpecVoice == VoiceInit /\ [][VoiceNext]_vars

\* ------------------------------------------------- the speech cascades
\* One attempt of a strategy and how it ended, and what a call did: its
\* attempts in order, and whether an exception left it.
Attempt(strategy, ok) == [strategy |-> strategy, ok |-> ok]
Cascade(attempts, raised) == [attempts |-> attempts, raised |-> raised]

\* The texts to speak are sequences of code points: a space, a Latin letter,
\* the capital I with dot above and a Tibetan letter.
CapitalIDotAbove == 304
SpeechChars == {32, 97, CapitalIDotAbove, 3904}
SpeechTexts == SeqsUpTo(SpeechChars, MaxTextLen)

\* char.isalpha()
IsAlpha(c) == c \in {97, CapitalIDotAbove, 3904}
\* len(char.lower()): the lower case of U+0130 is two code points.
LowerLen(c) == IF c = CapitalIDotAbove THEN 2 ELSE 1

\* OfflineAIService.generate_synthetic_speech returns: ord(char.lower())
\* raises TypeError when the lower case of a letter is not one character.
generate_synthetic_speech_ok(text) ==
    \A k \in DOMAIN text : IsAlpha(text[k]) => LowerLen(text[k]) = 1

\* OfflineAIService.generate_speech_offline, its attempts: the engine chosen
\* at setup inside the try (the tone generator is the else branch), and the
\* tone generator again in the except branch, whatever raised.
generate_speech_offline_cascade(engine, text, engine_ok) ==
    LET synthetic == Attempt("synthetic", generate_synthetic_speech_ok(text))
        first == IF engine \in {"espeak", "festival"}
                 THEN Attempt(engine, engine_ok)
                 ELSE synthetic
    IN  IF first.ok
        THEN Cascade(<<first>>, FALSE)
        ELSE Cascade(<<first, synthetic>>, ~synthetic.ok)

\* DzongkhaService.text_to_speech_dzongkha, its attempts.  The model is tried
\* when tts_model is set and tts_available is true, and it fails without its
\* tokenizer; generate_tts_fallback runs espeak (check=True) when tts_engine
\* is 'espeak' and the tone generator otherwise; an exception of
\* generate_tts_fallback (espeak's, or the AttributeError of an unset
\* tts_engine) reaches the except branch, which runs the tone generator.
\* generate_synthetic_dzongkha_speech takes ord(char) of the character
\* itself: no text makes it raise.
text_to_speech_dzongkha_cascade(self, model_ok, espeak_ok) ==
    LET model == IF HasAttr(self, "tts_model") /\ GetAttr(self, "tts_available", FALSE)
                 THEN <<Attempt("model", model_ok /\ HasAttr(self, "tts_tokenizer"))>>
                 ELSE <<>>
        espeak == IF GetAttr(self, "tts_engine", "unset") = "espeak"
                  THEN <<Attempt("espeak", espeak_ok)>>
                  ELSE <<>>
        tried == IF model # <<>> /\ model[1].ok THEN model ELSE model \o espeak
    IN  IF tried # <<>> /\ tried[Len(tried)].ok
        THEN Cascade(tried, FALSE)
        ELSE Cascade(Append(tried, Attempt("synthetic", TRUE)), FALSE)

\* A service as load_models left it, an OfflineAIService with its engine,
\* and a text to speak.
SpeechInit ==
    /\ dz_service \in LoadedServices
    /\ dz_text \in SpeechTexts
    /\ dz_detected = NoDetection
    /\ dz_call = NoCall
    /\ tts_engine \in {"espeak", "festival", "synthetic"}
    /\ svc = "none" /\ client = FALSE
    /\ JobIdle
    /\ VoiceIdle
    /\ seg_script = <<>> /\ seg_fn = "none" /\ seg_out = <<>> /\ seg_raised = FALSE

\* OfflineAIService.generate_speech_offline(text)
GenerateSpeechOffline ==
    /\ \E engine_ok \in BOOLEAN :
        dz_call' = [op |-> "generate_speech_offline",
                    out |-> generate_speech_offline_cascade(tts_engine, dz_text,
                                                            engine_ok)]
    /\ UNCHANGED <<segVars, jobVars, voiceVars, entryVars, dz_service, dz_text, dz_detected>>

\* DzongkhaService.text_to_speech_dzongkha(text)
TextToSpeechDzongkha ==
    /\ \E model_ok \in BOOLEAN, espeak_ok \in BOOLEAN :
        dz_call' = [op |-> "text_to_speech_dzongkha",
                    out |-> text_to_speech_dzongkha_cascade(dz_service, model_ok,
                                                            espeak_ok)]
    /\ UNCHANGED <<segVars, jobVars, voiceVars, entryVars, dz_text, dz_detected>>
    /\ dz_service' = self_after(dz_service, "text_to_speech_dzongkha")

SpeechNext ==
    \/ GenerateSpeechOffline
    \/ TextToSpeechDzongkha

SpecSpeech == SpeechInit /\ [][SpeechNext]_vars

\* ------------------------------- the Dzongkha service, every operation
\* DzongkhaService.speech_to_text_dzongkha(audio_path)
SpeechToTextDzongkha ==
    /\ \E transcribe_ok \in BOOLEAN :
        dz_call' = [op |-> "speech_to_text_dzongkha",
                    out |-> speech_to_text_dzongkha(dz_service, transcribe_ok)]
    /\ dz_service' = self_after(dz_service, "speech_to_text_dzongkha")
    /\ UNCHANGED <<segVars, jobVars, voiceVars, entryVars, dz_text, dz_detected>>

\* DzongkhaService.load_models() run again on the service: the attributes
\* assigned earlier stay unless a loader or a setup assigns them anew.
ReloadModels ==
    /\ \E vits_ok \in BOOLEAN, tokenizer_ok \in BOOLEAN,
          espeak \in {"dz", "no_dz", "raise"}, whisper_ok \in BOOLEAN :
        dz_service' = load_models(dz_service, vits_ok, tokenizer_ok, espeak,
                                  whisper_ok)
    /\ dz_call' = [op |-> "load_models"]
    /\ UNCHANGED <<segVars, jobVars, voiceVars, entryVars, dz_text, dz_detected>>

DzOpsNext ==
    \/ DzNext
    \/ TextToSpeechDzongkha
    \/ SpeechToTextDzongkha
    \/ ReloadModels

SpecDzOps == DzInit /\ [][DzOpsNext]_vars

\* ------------------- the other entry points of the advanced service
\* The methods class AdvancedVideoGenerationService defines.
DefinedMethods ==
    {"__init__", "generate_video_from_script", "generate_ai_avatar_video",
     "generate_slideshow_video", "generate_animated_explainer",
     "generate_social_media_video", "add_video_effects",
     "generate_video_with_music", "create_video_montage",
     "_parse_script_into_scenes", "_generate_scene_clip",
     "_generate_scene_visual", "_generate_scene_audio", "_create_video_clip",
     "_add_subtitles_to_clip", "_combine_clips", "_generate_avatar_images",
     "_create_fallback_image", "_create_fallback_avatar",
     "_generate_background_music", "_add_background_music"}

\* self.method(...): looking up a method the class does not define raises
\* AttributeError, and no entry point catches it.
CallMethod(method) ==
    IF method \in DefinedMethods THEN "none" ELSE "AttributeError"

\* What an entry point did: the configuration it chose, the first helper it
\* called that is not one of the pipeline's, and the exception that left it.
Entry(op, config, helper) ==
    [op |-> op, config |-> config, helper |-> helper, raised |-> CallMethod(helper)]

\* generate_social_media_video: platform_specs.get(platform,
\* platform_specs['instagram'])
Platforms == {"instagram", "youtube", "tiktok", "linkedin", "facebook"}
platform_specs(platform) ==
    CASE platform = "youtube" ->
           [aspect_ratio |-> "16:9", duration |-> 60, style |-> "professional"]
      [] platform = "tiktok" ->
           [aspect_ratio |-> "9:16", duration |-> 15, style |-> "dynamic"]
      [] platform = "linkedin" ->
           [aspect_ratio |-> "16:9", duration |-> 45, style |-> "corporate"]
      [] OTHER ->
           [aspect_ratio |-> "9:16", duration |-> 30, style |-> "trendy"]

\* _generate_avatar_images: three images, each from DALL-E or, when that
\* raises, the PIL fallback avatar at its own path.
RECURSIVE _generate_avatar_images(_, _, _)
_generate_avatar_images(files, dalle_ok, k) ==
    IF k > 3 THEN files
    ELSE _generate_avatar_images(
             Write(files,
                   AdvancedPath(IF dalle_ok[k] THEN "avatar" ELSE "avatar_fallback", k),
                   Material(0, k)),
             dalle_ok, k + 1)

\* The service is idle between calls; it was constructed once.
EntryInit ==
    /\ svc = "advanced" /\ client = FALSE /\ tts_engine = "synthetic"
    /\ JobIdle
    /\ DzIdle
    /\ VoiceIdle
    /\ seg_script = <<>> /\ seg_fn = "none" /\ seg_out = <<>> /\ seg_raised = FALSE

\* generate_ai_avatar_video(script, avatar_config)
GenerateAiAvatarVideo ==
    /\ \E dalle_ok \in [1..3 -> BOOLEAN] :
        fs' = _generate_avatar_images(fs, dalle_ok, 1)
    /\ entry_call' = Entry("generate_ai_avatar_video", "avatar",
                           "_create_avatar_animation")
    /\ UNCHANGED <<segVars, dzVars, voiceVars, svc, cfgVars, reqVars, runVars>>

\* generate_slideshow_video(content_points, template)
GenerateSlideshowVideo ==
    /\ \E content_points \in {<<>>, <<"p">>, <<"p", "p">>} :
        entry_call' = Entry("generate_slideshow_video", "modern",
                            IF content_points # <<>> THEN "_create_slide"
                            ELSE "_combine_slides_with_transitions")
    /\ UNCHANGED <<segVars, dzVars, voiceVars, jobVars>>

\* generate_animated_explainer(concept, style)
GenerateAnimatedExplainer ==
    /\ entry_call' = Entry("generate_animated_explainer", "whiteboard",
                           "_analyze_concept_for_visuals")
    /\ UNCHANGED <<segVars, dzVars, voiceVars, jobVars>>

\* generate_social_media_video(content, platform)
GenerateSocialMediaVideo ==
    /\ \E platform \in Platforms :
        entry_call' = [platform |-> platform]
                        @@ Entry("generate_social_media_video",
                                 platform_specs(platform),
                                 "_create_platform_optimized_video")
    /\ UNCHANGED <<segVars, dzVars, voiceVars, jobVars>>

\* create_video_montage(media_files, theme)
CreateVideoMontage ==
    /\ entry_call' = Entry("create_video_montage", "dynamic", "_analyze_media_files")
    /\ UNCHANGED <<segVars, dzVars, voiceVars, jobVars>>

EntryNext ==
    \/ GenerateAiAvatarVideo
    \/ GenerateSlideshowVideo
    \/ GenerateAnimatedExplainer
    \/ GenerateSocialMediaVideo
    \/ CreateVideoMontage

SpecEntry == EntryInit /\ [][EntryNext]_vars

\* ------------------------------------- the Dzongkha tone generator
\* The code points to speak: a space, a Latin letter, and the code points at
\* and next to the ends of the two ranges the generator tests.
ToneChars == {32, 97, 3839, 3840, 3903, 3904, 3948, 3949, 4095, 4096}
ToneTexts == SeqsUpTo(ToneChars, MaxTextLen)

base_freq == 180
ConsonantFirst == 3904
ConsonantLast == 3948

\* generate_synthetic_dzongkha_speech, the tone of one non-whitespace
\* character: the Tibetan block is tested first, the consonants 0x0F40 to
\* 0x0F6C in the elif after it.
tone_type(char_code) ==
    IF TibetanFirst <= char_code /\ char_code <= TibetanLast THEN "high"
    ELSE IF ConsonantFirst <= char_code /\ char_code <= ConsonantLast THEN "mid"
    ELSE "low"

freq(char_code) ==
    IF TibetanFirst <= char_code /\ char_code <= TibetanLast
    THEN base_freq + (char_code % 100) + 50
    ELSE IF ConsonantFirst <= char_code /\ char_code <= ConsonantLast
    THEN base_freq + (char_code % 50) + 25
    ELSE base_freq + (char_code % 30)

\* generate_synthetic_dzongkha_speech(text): one tone per non-whitespace
\* character, silence for the others.
generate_synthetic_dzongkha_speech(text) ==
    [k \in DOMAIN text |->
        IF IsWhitespace(text[k]) THEN [tone_type |-> "silence", freq |-> 0]
        ELSE [tone_type |-> tone_type(text[k]), freq |-> freq(text[k])]]

ToneInit ==
    /\ dz_service \in LoadedServices
    /\ dz_text \in ToneTexts
    /\ dz_detected = NoDetection
    /\ dz_call = NoCall
    /\ svc = "none" /\ client = FALSE /\ tts_engine = "synthetic"
    /\ JobIdle
    /\ VoiceIdle
    /\ seg_script = <<>> /\ seg_fn = "none" /\ seg_out = <<>> /\ seg_raised = FALSE

\* DzongkhaService.generate_synthetic_dzongkha_speech(text, output_path)
GenerateSyntheticDzongkhaSpeech ==
    /\ dz_call' = [op |-> "generate_synthetic_dzongkha_speech",
                   out |-> generate_synthetic_dzongkha_speech(dz_text)]
    /\ dz_service' = self_after(dz_service, "generate_synthetic_dzongkha_speech")
    /\ UNCHANGED <<segVars, jobVars, voiceVars, entryVars, dz_text, dz_detected>>

ToneNext == GenerateSyntheticDzongkhaSpeech

SpecTone == ToneInit /\ [][ToneNext]_vars

\* ------------------------------------------------------------------ claims
\* A script has a non-empty sentence when some piece between terminators is
\* not blank.
HasSentence(s) == StrippedNonEmpty(ReSplit(s)) # <<>>

\* The text of the k-th scene of a segmenter's result.
SceneText(fn, out, k) ==
    IF fn \in {"split_script_into_segments", "split_script"}
    THEN out[k] ELSE out[k].text

\* C1: every segmenter returns, for every script (the empty and the blank
\* ones included), without raising and with at least one scene; when the
\* script has no non-empty sentence the result is the single scene holding
\* the whole script.
C1_SegmentersNeverEmpty ==
    seg_fn # "none" =>
        /\ ~seg_raised
        /\ Len(seg_out) >= 1
        /\ ~HasSentence(seg_script) =>
              /\ Len(seg_out) = 1
              /\ SceneText(seg_fn, seg_out, 1) = seg_script

\* The job is over: the caller has its answer, or an exception nobody caught.
Ended == pc \in {"completed", "failed", "error"}

AllScenes == 1..Len(scenes)

\* C2: when the muxer's concatenation call fails and at least one segment was
\* listed for it, the assembler's result is the first listed segment, and no
\* error is raised.
C2_ConcatFailureYieldsFirstSegment ==
    (Ended /\ concat = "failed" /\ concat_list # <<>>) =>
        /\ exc = "none"
        /\ pc = "completed"
        /\ Exists(fs, result.path)
        /\ fs[result.path] = concat_list[1]

\* C3: a job that built no usable segment ends failed: its caller gets an
\* error, no 'completed' status and no artifact path.
C3_NoSegmentsFails ==
    (Ended /\ usable = {}) =>
        /\ pc \in {"failed", "error"}
        /\ result.status # "completed"
        /\ result.path = NoPath

\* C4: a job ends failed only when it built no usable segment: with one
\* usable segment or more it ends completed and its final artifact exists.
C4_FailedOnlyWithoutSegments ==
    (Ended /\ usable # {}) =>
        /\ pc = "completed"
        /\ Exists(fs, result.path)

\* C5: when every remote provider call of a job with a non-empty script
\* failed, the job ends completed with one segment per scene, and its result
\* marks every scene degraded.
C5_AllProvidersDownStillCompletes ==
    (Ended /\ script # <<>> /\ ~remote_ok) =>
        /\ pc = "completed"
        /\ scenes # <<>>
        /\ usable = AllScenes
        /\ result.degraded = AllScenes

\* C6: no exception leaves generate_image_from_text or _generate_scene_visual.
C6_GenerateImageNeverRaises ==
    exc \notin {"generate_image_from_text", "_generate_scene_visual"}

\* C7: no exception leaves generate_speech, generate_speech_offline or
\* _generate_scene_audio.
C7_SynthesizeSpeechNeverRaises ==
    exc \notin {"generate_speech", "generate_speech_offline", "_generate_scene_audio"}

\* The visual and the audio artifact of scene k of the job.
VisualPath(k) ==
    CASE svc = "video" -> OutputsPath(job, "image", k)
      [] svc = "offline" -> OfflinePath("image", 0, scenes[k])
      [] OTHER -> AdvancedPath("visual", k)

AudioPath(k) ==
    CASE svc = "video" -> OutputsPath(job, "audio", k)
      [] svc = "offline" -> OfflinePath("speech", 0, scenes[k])
      [] OTHER -> AdvancedPath("audio", k)

\* C8: when assembly begins, the visual and the audio file of every scene exist.
C8_ArtifactsExistAtAssembly ==
    pc = "assembling" =>
        \A k \in AllScenes : Exists(fs, VisualPath(k)) /\ Exists(fs, AudioPath(k))

\* C9: a job with the empty script is rejected with a validation error, and
\* nothing is called or written for it.
C9_EmptyScriptRejected ==
    (job > 0 /\ script = <<>>) =>
        /\ pc = "rejected"
        /\ result.code = 400
        /\ calls = {}

\* C10: detect_language is a pure function of its text: in whatever state
\* construction left the service, and after other operations, it returns for
\* the same text the same result; the confidence lies in [0, 1]; and a text
\* with no character other than whitespace gives {"unknown", 0.0}.
C10_DetectLanguagePure ==
    dz_detected.called =>
        LET r == dz_detected.result
        IN  /\ \A self \in LoadedServices : detect_language(self, dz_text) = r
            /\ r.confidence.den > 0
            /\ 0 <= r.confidence.num
            /\ r.confidence.num <= r.confidence.den
            /\ NonWhitespace(dz_text) = <<>> =>
                  r = Detection("unknown", Ratio(0, 1))

\* detect_language was called with a blank, non-empty text after another
\* operation of the service.
C10_BlankTextDetected ==
    /\ dz_detected.called
    /\ dz_text # <<>>
    /\ NonWhitespace(dz_text) = <<>>
    /\ dz_detected.result.language = "unknown"
    /\ dz_call.op = "validate_dzongkha_text"

\* The positions of dz_text holding a non-whitespace character, and those of
\* them holding a code point of U+0F00..U+0FFF.
TotalPositions == {k \in DOMAIN dz_text : dz_text[k] \notin WhitespaceCodes}
MatchedPositions == {k \in TotalPositions : dz_text[k] \in 3840..4095}

\* The quotient q equals n/d.
RatioIs(q, n, d) == q.den > 0 /\ q.num * d = n * q.den

\* C11: for a text with total > 0 non-whitespace characters, matched of them
\* in U+0F00..U+0FFF, detect_language returns "dz" with confidence
\* matched/total exactly when matched/total > 0.5, and otherwise "other"
\* with confidence 1 - matched/total.
C11_DetectLanguageThreshold ==
    LET total == Cardinality(TotalPositions)
        matched == Cardinality(MatchedPositions)
        r == dz_detected.result
    IN  (dz_detected.called /\ total > 0) =>
            IF 2 * matched > total
            THEN r.language = "dz" /\ RatioIs(r.confidence, matched, total)
            ELSE r.language = "other"
                 /\ RatioIs(r.confidence, total - matched, total)

\* detect_language was called with a text half of whose non-whitespace
\* characters are Tibetan, and answered "other".
C11_HalfIsOther ==
    /\ dz_detected.called
    /\ Cardinality(TotalPositions) = 2
    /\ Cardinality(MatchedPositions) = 1
    /\ dz_detected.result.language = "other"

\* C12: for every text, validate_dzongkha_text's is_valid equals
\* (detect_language's language = "dz"), and its confidence is the
\* detection's confidence.
C12_ValidateAgreesWithDetect ==
    (dz_detected.called /\ dz_call.op = "validate_dzongkha_text") =>
        /\ dz_call.out.is_valid = (dz_detected.result.language = "dz")
        /\ dz_call.out.confidence = dz_detected.result.confidence

\* Both operations were called on a text that is not Dzongkha and has
\* non-whitespace characters: valid is False while the confidence is high.
C12_InvalidTextValidated ==
    /\ dz_detected.called
    /\ dz_call.op = "validate_dzongkha_text"
    /\ dz_detected.result.language = "other"
    /\ ~dz_call.out.is_valid
    /\ dz_call.out.confidence = Ratio(1, 1)

\* needle occurs in hay as a run of consecutive elements.
Occurs(needle, hay) ==
    \E k \in 0..(Len(hay) - Len(needle)) :
        SubSeq(hay, k + 1, k + Len(needle)) = needle

\* The code points of "not available".
NotAvailable == <<110, 111, 116, 32, 97, 118, 97, 105, 108, 97, 98, 108, 101>>

\* C13: in every state construction can leave the service in, translate_text
\* returns confidence 0.0 and a translated_text made of a note saying the
\* translation is not available followed by the original text, never the
\* bare text or another text.
C13_TranslatePassThroughMarked ==
    dz_call.op = "translate_text" =>
        LET translated == dz_call.out.translated_text
            note == SubSeq(translated, 1, Len(translated) - Len(dz_text))
        IN  /\ dz_call.out.confidence = Ratio(0, 1)
            /\ Len(translated) > Len(dz_text)
            /\ SubSeq(translated, Len(translated) - Len(dz_text) + 1,
                      Len(translated)) = dz_text
            /\ Occurs(NotAvailable, note)
            /\ translated # dz_text

\* translate_text was called with a text of MaxTextLen characters.
C13_TextTranslated ==
    /\ dz_call.op = "translate_text"
    /\ Len(dz_text) = MaxTextLen
    /\ Len(dz_call.out.translated_text) > MaxTextLen

\* The providers a generate_speech call reached.
Reached(route) == {route[k] : k \in DOMAIN route}

\* C14: a generate_speech call with a known voice id goes first to the
\* provider owning the id: an id made by the fallback cloner never reaches
\* the remote cloning provider, nor does a preset listed with service
\* 'openai', a remotely cloned id reaches the remote cloning provider first,
\* and the first provider depends on the id and the client configuration only.
C14_SpeechRoutedByProvenance ==
    voice_call.op = "generate_speech" =>
        LET known == voice_call.voice
            route == voice_call.calls
        IN  /\ route # <<>>
            /\ known.service = "fallback" => "elevenlabs" \notin Reached(route)
            /\ known.service = "openai" => "elevenlabs" \notin Reached(route)
            /\ known.service = "elevenlabs" => route[1] = "elevenlabs"
            /\ route[1] = generate_speech_calls(voice_call.client, known.voice_id,
                                                TRUE, TRUE)[1]

\* C15: the fallback voice id is a function of (sample path, requested name):
\* two calls with the same pair, in the same or in different processes,
\* return the same id; the id is tagged as fallback and its metadata file is
\* written when the call returns.
C15_FallbackVoiceIdDeterministic ==
    \A a \in voice_known :
        a.service = "fallback" =>
            /\ IsFallbackVoice(a.voice_id)
            /\ Exists(fs, MetadataPath(a.voice_id))
            /\ \A b \in voice_known :
                  (b.service = "fallback" /\ b.sample = a.sample /\ b.name = a.name)
                      => b.voice_id = a.voice_id

\* "Hello there." and "How are you?"
HelloThere == SubSeq(HelloScript, 1, 12)
HowAreYou == SubSeq(HelloScript, 14, 25)

\* The texts of the scenes of a segmenter's result.
SceneTexts(fn, out) == [k \in 1..Len(out) |-> SceneText(fn, out, k)]

\* C16: for the script "Hello there. How are you?", with the AI segmenter
\* unavailable, segmentation yields exactly the two scenes "Hello there."
\* and "How are you?", in that order.
C16_HelloScenario ==
    (seg_script = HelloScript
        /\ seg_fn \in {"split_script_into_segments", "split_script",
                       "_parse_script_into_scenes:fallback"}) =>
        SceneTexts(seg_fn, seg_out) = <<HelloThere, HowAreYou>>

\* A piece of text holds a character that is neither blank nor a terminator.
HasContent(s) == \E k \in DOMAIN s : s[k] \notin Spaces \cup Terminators

\* The sentences of a text, each trimmed and with the delimiters that end
\* it; pieces without content are not sentences.
RECURSIVE SentencesFrom(_, _, _, _)
SentencesFrom(s, k, cur, acc) ==
    LET emit(piece) == IF HasContent(piece) THEN Append(acc, Strip(piece)) ELSE acc
    IN  IF k > Len(s) THEN emit(cur)
        ELSE IF s[k] \in Terminators /\ (k = Len(s) \/ s[k + 1] \notin Terminators)
             THEN SentencesFrom(s, k + 1, <<>>, emit(Append(cur, s[k])))
             ELSE SentencesFrom(s, k + 1, Append(cur, s[k]), acc)

Sentences(s) == SentencesFrom(s, 1, <<>>, <<>>)

\* The sentences of the texts, in the order of the texts.
RECURSIVE SentencesOfAll(_)
SentencesOfAll(texts) ==
    IF texts = <<>> THEN <<>>
    ELSE Sentences(Head(texts)) \o SentencesOfAll(Tail(texts))

\* C17: for every non-empty script, the sentences held by the scenes of the
\* segmenter's result, read in scene order, are the script's non-empty
\* trimmed sentences in script order, with their original delimiters.
C17_SentencesPreserved ==
    (seg_script # <<>>
        /\ seg_fn \in {"split_script_into_segments", "split_script",
                       "_parse_script_into_scenes:fallback"}) =>
        SentencesOfAll(SceneTexts(seg_fn, seg_out)) = Sentences(seg_script)

\* The scene indices of the material a listed segment holds.
SceneIndices(content) == {content[k].scene : k \in DOMAIN content}

\* C18: the segments listed for the muxer's concatenation are in strictly
\* increasing scene-index order and no scene is listed twice, also when the
\* segments of some scenes are missing or were not built.
C18_ConcatListInSceneOrder ==
    \A n \in DOMAIN concat_list, m \in DOMAIN concat_list :
        n < m => \A a \in SceneIndices(concat_list[n]),
                    b \in SceneIndices(concat_list[m]) : a < b

\* Three scenes, the segment of the second one missing, the other two listed.
C18_ListedAroundMissingSegment ==
    /\ Ended /\ Len(scenes) = 3
    /\ Len(concat_list) = 2
    /\ SceneIndices(concat_list[1]) = {1}
    /\ SceneIndices(concat_list[2]) = {3}

\* C19: every file a job writes lies at a path that holds that job's id, so
\* no file holds, at a path of another job or of no job, what a job wrote.
C19_FilesAtJobScopedPaths ==
    \A p \in DOMAIN fs : \A k \in DOMAIN fs[p] : fs[p][k].job = p.job

\* The place of a strategy in the cascade: the owning model, the local speech
\* engine, the tone generator.
StrategyRank(strategy) ==
    CASE strategy = "model" -> 1
      [] strategy \in {"espeak", "festival"} -> 2
      [] OTHER -> 3

\* C20: a speech call runs its strategies in the fixed order: a strategy is
\* attempted only after every earlier attempt has failed, the first success
\* ends the cascade, and no strategy is attempted twice in one call.
C20_CascadeInOrderOnce ==
    dz_call.op \in {"generate_speech_offline", "text_to_speech_dzongkha"} =>
        \A k \in 1..(Len(dz_call.out.attempts) - 1) :
            /\ ~dz_call.out.attempts[k].ok
            /\ StrategyRank(dz_call.out.attempts[k].strategy)
                   < StrategyRank(dz_call.out.attempts[k + 1].strategy)

\* A scene list as the pipeline needs it: not empty, every entry with the
\* keys 'text' and 'visual_description'.
WellFormedScenes(out) ==
    /\ out # <<>>
    /\ \A k \in DOMAIN out : DOMAIN out[k] = {"text", "visual_description"}

\* The mechanical fallback: one scene per non-empty trimmed sentence, its
\* visual description equal to its text.
MechanicalFallback(s) ==
    [k \in 1..Len(split_script(s)) |-> Scene(split_script(s)[k], split_script(s)[k])]

\* C21: when the AI segmentation call fails, or answers without the key
\* 'scenes', with an empty list or with an entry lacking a key,
\* _parse_script_into_scenes returns the mechanical fallback.
C21_MalformedAnswerFallsBack ==
    (\/ seg_fn \in {"_parse_script_into_scenes:fallback",
                    "_parse_script_into_scenes:default"}
     \/ (seg_fn = "_parse_script_into_scenes:ai" /\ ~WellFormedScenes(seg_out))) =>
        seg_out = MechanicalFallback(seg_script)

\* The scenes whose audio, and whose visual, the running job has generated.
AudioDone == IF svc = "video" THEN Len(audio_files) ELSE Len(video_segments)
VisualDone == IF svc = "video" THEN Len(image_files) ELSE Len(video_segments)

\* C22: scenes are generated one after another: no generation step of a scene
\* has been taken while a step of an earlier scene is still to come, so the
\* audio and the visuals are never more than one scene apart.
C22_ScenesGeneratedOneByOne ==
    (pc \in {"segmented", "generating", "assembling"}) =>
        /\ AudioDone <= VisualDone + 1
        /\ VisualDone <= AudioDone + 1

\* The moves of one job along CREATED, SEGMENTED, GENERATING, ASSEMBLING and
\* the two terminal states; GENERATING is left for FAILED when a provider
\* call raised, and a script without scenes goes from SEGMENTED to ASSEMBLING.
JobMoves ==
    { <<"created", "segmented">>,
      <<"segmented", "generating">>, <<"segmented", "assembling">>,
      <<"segmented", "failed">>,
      <<"generating", "generating">>, <<"generating", "assembling">>,
      <<"generating", "failed">>,
      <<"assembling", "completed">>, <<"assembling", "failed">> }

\* Every scene has been through the last loop of the handler.
LastSceneGenerated ==
    /\ i > Len(scenes)
    /\ loop = IF svc = "video" THEN "image" ELSE "scene"

\* C23: a job moves only along CREATED, SEGMENTED, GENERATING, ASSEMBLING,
\* then COMPLETED or FAILED; assembly starts only after the last scene was
\* generated, and a terminal state is left only by the start of another job.
C23_JobStateMachine ==
    [][/\ job' = job => (pc' = pc \/ <<pc, pc'>> \in JobMoves)
       /\ job' # job => (pc \in {"idle"} \cup Terminal /\ pc' \in {"created", "rejected"})
       /\ (pc # "assembling" /\ pc' = "assembling") => LastSceneGenerated]_vars

\* The moves of C23 with the exception nobody catches as one more way out of
\* GENERATING.
C23_MovesButForUncaught ==
    [][/\ job' = job => (pc' = pc \/ <<pc, pc'>> \in JobMoves
                            \/ <<pc, pc'>> = <<"generating", "error">>
                            \/ <<pc, pc'>> = <<"segmented", "error">>)
       /\ job' # job => (pc \in {"idle"} \cup Terminal /\ pc' \in {"created", "rejected"})
       /\ (pc # "assembling" /\ pc' = "assembling") => LastSceneGenerated]_vars

\* The content holds material the running job made for scene k.
HoldsScene(content, k) ==
    \E m \in DOMAIN content : content[m] = [job |-> job, scene |-> k]

\* C24: with subtitles requested, a scene whose clip was built is not dropped
\* when the burn-in fails: the path _generate_scene_clip returned exists and
\* the scene is in the concatenation list.
C24_SubtitleFailureKeepsScene ==
    (svc = "advanced" /\ include_subtitles /\ pc \in {"completed", "failed"}) =>
        \A k \in DOMAIN video_segments :
            (/\ Exists(fs, AdvancedPath("clip", k))
             /\ HoldsScene(fs[AdvancedPath("clip", k)], k)) =>
                /\ Exists(fs, video_segments[k])
                /\ \E n \in DOMAIN concat_list : HoldsScene(concat_list[n], k)

\* C25: a scene whose segment the muxer failed to build is skipped and the
\* segments of the other scenes are built and concatenated: when the
\* concatenation ran, the list holds the segments this job built, each once,
\* and nothing else, and the final video is their concatenation; the job
\* fails only when no segment was built.
C25_FailedSegmentSkipped ==
    (Ended /\ svc \in {"video", "offline"} /\ Len(scenes) >= 2) =>
        /\ concat = "ok" =>
              /\ \A n \in DOMAIN concat_list :
                    \E k \in usable : concat_list[n] = Material(job, k)
              /\ \A k \in usable :
                    \E n \in DOMAIN concat_list : concat_list[n] = Material(job, k)
              /\ fs[result.path] = Concatenation(concat_list)
        /\ (pc = "failed" /\ concat # "failed") => usable = {}

\* The capability status of the service ("unset": the attribute is missing).
CapabilityStatus(self) ==
    [a \in {"tts_available", "asr_available", "translation_available", "tts_engine"}
        |-> GetAttr(self, a, "unset")]

\* C26: no operation but load_models changes tts_available, asr_available,
\* translation_available or tts_engine, whichever branch of its cascade the
\* operation takes.
C26_OperationsKeepCapabilities ==
    [][dz_call'.op # "load_models" =>
          CapabilityStatus(dz_service') = CapabilityStatus(dz_service)]_vars

\* The speech cascade fell through to a fallback on a service that announces
\* speech.
C26_CascadeFellThrough ==
    /\ dz_call.op = "text_to_speech_dzongkha"
    /\ Len(dz_call.out.attempts) >= 2
    /\ CapabilityStatus(dz_service)["tts_available"] = TRUE

\* C27: every job-type entry point ends without an unhandled error, and the
\* social clip uses the instagram configuration for a platform it does not
\* know.
C27_EntryPointsEndHandled ==
    entry_call.op # "none" =>
        /\ entry_call.raised = "none"
        /\ (entry_call.op = "generate_social_media_video"
              /\ entry_call.platform
                    \notin {"instagram", "youtube", "tiktok", "linkedin"}) =>
                entry_call.config = platform_specs("instagram")

\* The frequency bands of the tone generator.
Bands == {"high", "mid", "low"}

\* C28: the tone generator gives every non-whitespace character one of the
\* three bands high, mid and low, chosen by its code point alone, and every
\* band is the band of some code point.
C28_ThreeBandsUsed ==
    dz_call.op = "generate_synthetic_dzongkha_speech" =>
        /\ \A k \in DOMAIN dz_text :
              ~IsWhitespace(dz_text[k]) =>
                  /\ dz_call.out[k].tone_type \in Bands
                  /\ dz_call.out[k].tone_type = tone_type(dz_text[k])
        /\ \A band \in Bands : \E c \in ToneChars : tone_type(c) = band

\* C29: the final artifact reported for a completed job was written by that
\* job: the file at the returned path holds nothing an earlier job produced,
\* also when the job's own concatenation or copy failed.
C29_FinalArtifactIsOwn ==
    (pc = "completed" /\ Exists(fs, result.path)) =>
        \A k \in DOMAIN fs[result.path] : fs[result.path][k].job = job

\* C30: in video.py every segment is muxed from the image and the audio of
\* one scene: at every position of the zip the two files carry the same index
\* and hold the material of the same scene, and every listed segment holds
\* the material of exactly one scene.
C30_AudioAndImageOfSameScene ==
    svc = "video" =>
        /\ \A k \in DOMAIN audio_files \cap DOMAIN image_files :
              /\ audio_files[k].idx = image_files[k].idx
              /\ (Exists(fs, audio_files[k]) /\ Exists(fs, image_files[k])) =>
                    fs[audio_files[k]] = fs[image_files[k]]
        /\ \A n \in DOMAIN concat_list :
              Cardinality(SceneIndices(concat_list[n])) = 1

\* A job of video.py listed the segments of three scenes.
C30_ThreeSegmentsMuxed ==
    /\ svc = "video" /\ pc = "completed"
    /\ Len(audio_files) = 3 /\ Len(image_files) = 3
    /\ Len(concat_list) = 3

=============================================================================
